---- MODULE Spec2Model ----
(***************************************************************************)
(* Model of the ECS deployment planner, pkg/app/piped/planner/ecs/ecs.go:  *)
(* Register, Planner.Plan and determineVersion, with the collaborators     *)
(* they call (deploy-source provider, task-definition loader, planner      *)
(* registry, quick-sync stage builder).                                    *)
(*                                                                         *)
(* Conventions.  A Go pointer is a sequence of length 0 (nil) or 1.  A Go  *)
(* string that is formatted or searched is a sequence of tokens, so that   *)
(* Sprintf is a substitution and "contains" is a search.  A Go error is a  *)
(* record [msg, chain]: msg is its text, chain the set of sentinel errors  *)
(* errors.Is finds by unwrapping it.                                       *)
(***************************************************************************)
EXTENDS Integers, Sequences, FiniteSets, TLC

\* ------------------------------------------------------------------ bounds

\* Longest configured pipeline (cfg.Pipeline.Stages) that is enumerated.
MaxPipelineStages == 1
\* time.Now() returns a Unix time in 1..MaxTime.
MaxTime == 2

\* ---------------------------------------------------------- Go primitives

Nil == <<>>
Ptr(v) == <<v>>
Deref(p) == p[1]

NilErr == [msg |-> <<>>, chain |-> {}]

\* errors.New / a sentinel error: it is itself.
NewError(text, sentinel) == [msg |-> text, chain |-> {sentinel}]

RECURSIVE Subst(_, _, _)
\* The format with every occurrence of the verb replaced by the argument's tokens.
Subst(format, verb, arg) ==
    IF format = <<>> THEN <<>>
    ELSE IF Head(format) = verb
         THEN arg \o Subst(Tail(format), verb, arg)
         ELSE <<Head(format)>> \o Subst(Tail(format), verb, arg)

\* fmt.Sprintf(format, s) with one %s verb.
Sprintf(format, s) == Subst(format, "%s", <<s>>)

\* fmt.Errorf(format, err) with one %v verb: the text of err is copied into
\* the message; %v (unlike %w) keeps no reference to err, so the new error
\* unwraps to nothing.
Errorf(format, err) == [msg |-> Subst(format, "%v", err.msg), chain |-> {}]

\* ------------------------------------------------------------- value sets

\* model.SyncStrategy
SyncStrategies == {"AUTO", "QUICK_SYNC", "PIPELINE"}
\* in.MostRecentSuccessfulCommitHash
CommitHashes == {"", "abc123"}
\* planner.Input, the fields Plan reads.
Inputs ==
    [SyncStrategy : SyncStrategies, MostRecentSuccessfulCommitHash : CommitHashes]

\* Image tags a task definition can carry.
Tags == {"v1.2.3", "latest", "unknown"}
\* What is found at AppDir/TaskDefinitionFile: no file, an unparsable file,
\* or a task definition whose image has a tag (Ptr) or none (Nil).
TaskDefinitions ==
    {[Kind |-> "taskdef", Tag |-> Nil]} \cup {[Kind |-> "taskdef", Tag |-> Ptr(t)] : t \in Tags}
FileContents ==
    {[Kind |-> "missing", Tag |-> Nil], [Kind |-> "malformed", Tag |-> Nil]}
        \cup TaskDefinitions

TaskDefinitionFiles == {"taskdef.json"}
\* ds.AppDir: the files of the application directory.
AppDirs == [TaskDefinitionFiles -> FileContents]

\* config.PipelineStage names that a configured pipeline may list.
ConfigStageNames == {"ECS_SYNC", "WAIT"}
RECURSIVE SeqsUpTo(_, _)
SeqsUpTo(S, n) ==
    IF n = 0 THEN {<<>>}
    ELSE LET shorter == SeqsUpTo(S, n - 1)
         IN shorter \cup {Append(s, x) : s \in {t \in shorter : Len(t) = n - 1}, x \in S}

\* cfg.Pipeline: nil, or a pipeline with 0..MaxPipelineStages stages.
Pipelines ==
    {Nil} \cup {Ptr([Stages |-> s]) : s \in SeqsUpTo(ConfigStageNames, MaxPipelineStages)}

\* config.ECSDeploymentSpec
ECSDeploymentSpecs ==
    [Input : [TaskDefinitionFile : TaskDefinitionFiles, AutoRollback : BOOLEAN],
     Pipeline : Pipelines]

\* deploysource.DeploySource, the fields Plan reads.
DeploySources ==
    [AppDir : AppDirs,
     ECSDeploymentSpec : {Nil} \cup {Ptr(c) : c \in ECSDeploymentSpecs}]

NoDeploySource ==
    [AppDir |-> [f \in TaskDefinitionFiles |-> [Kind |-> "missing", Tag |-> Nil]],
     ECSDeploymentSpec |-> Nil]

Times == 1..MaxTime

\* model.ApplicationKind_ECS
ApplicationKind_ECS == "ECS"

\* planner.Output zero value.
EmptyOutput == [Version |-> "", Stages |-> <<>>, Summary |-> <<>>]

NoInput == [SyncStrategy |-> "AUTO", MostRecentSuccessfulCommitHash |-> ""]

\* ------------------------------------------------------------------ state

VARIABLES
    pc,         \* position of the Plan call: idle, get, cfg, version, strategy, returned
    in,         \* planner.Input of the call
    ctx,        \* TRUE when the call's context has been cancelled
    ds,         \* local ds of Plan
    got,        \* the error TargetDSP.Get returned to Plan
    out,        \* named result out
    err,        \* named result err
    trace,      \* collaborators called by Plan so far, in order
    registry,   \* kinds that have a planner in the registerer
    regErr,     \* what r.Register returned to the last Register call
    regSeen     \* what the caller of the last Register call observed

vars == <<pc, in, ctx, ds, got, out, err, trace, registry, regErr, regSeen>>
planVars == <<pc, in, ctx, ds, got, out, err, trace>>
regVars == <<registry, regErr, regSeen>>

\* ---------------------------------------------------------- collaborators

\* context.Canceled, as a provider that honours cancellation returns it.
ContextCanceled == NewError(<<"context", "canceled">>, "context.Canceled")
\* Any other failure of the deploy-source provider.
GetFailure == NewError(<<"git", "clone", "failed">>, "deploysource.failure")

\* in.TargetDSP.Get(ctx, ioutil.Discard): the results it can return.  With the
\* context cancelled while the call is in flight it returns the context's
\* error; otherwise it fails or hands out a deploy source.
Get(cancelled) ==
    IF cancelled
    THEN {[ds |-> NoDeploySource, err |-> ContextCanceled]}
    ELSE {[ds |-> NoDeploySource, err |-> GetFailure]}
             \cup {[ds |-> d, err |-> NilErr] : d \in DeploySources}

\* provider.LoadTaskDefinition(appDir, file)
LoadTaskDefinition(appDir, file) ==
    LET content == appDir[file]
    IN IF content.Kind = "missing"
       THEN [val |-> content,
             err |-> NewError(<<"no", "such", "file">>, "os.ErrNotExist")]
       ELSE IF content.Kind = "malformed"
       THEN [val |-> content,
             err |-> NewError(<<"cannot", "unmarshal">>, "unmarshal")]
       ELSE [val |-> content, err |-> NilErr]

\* provider.FindImageTag(taskDefinition)
FindImageTag(taskDefinition) ==
    IF taskDefinition.Tag = Nil
    THEN [val |-> "", err |-> NewError(<<"image", "tag", "not", "found">>, "notag")]
    ELSE [val |-> Deref(taskDefinition.Tag), err |-> NilErr]

\* Index of the first stage of a pipeline.
StageIndexBase == 0

\* buildQuickSyncPipeline(autoRollback, now): the sync stage, then the
\* rollback stage when autoRollback is set; indices count up from the base.
buildQuickSyncPipeline(autoRollback, now) ==
    LET sync == [Name |-> "ECS_SYNC", Index |-> StageIndexBase, CreatedAt |-> now]
        rollback == [Name |-> "ROLLBACK", Index |-> StageIndexBase + 1, CreatedAt |-> now]
    IN IF autoRollback THEN <<sync, rollback>> ELSE <<sync>>

\* registry.Register(k, p): an error when k already has a planner, and the
\* registry is then left as it was.
RegistryRegister(planners, k) ==
    IF k \in planners
    THEN [planners |-> planners,
          err |-> NewError(<<"planner", "has", "already", "been", "registered">>,
                           "registry.duplicate")]
    ELSE [planners |-> planners \cup {k}, err |-> NilErr]

\* --------------------------------------------------------- determineVersion

determineVersion(appDir, serviceDefinitonFile) ==
    LET loaded == LoadTaskDefinition(appDir, serviceDefinitonFile)
    IN IF loaded.err # NilErr
       THEN [val |-> "", err |-> loaded.err]
       ELSE FindImageTag(loaded.val)

\* ------------------------------------------------------------------- Plan

\* The message Plan wraps the provider's error in.
PrepareErrorFormat ==
    <<"error", "while", "preparing", "deploy", "source", "data", "(", "%v", ")">>
MissingSpecError ==
    [msg |-> <<"missing", "ECSDeploymentSpec", "in", "deployment", "configuration">>,
     chain |-> {}]

SummaryPrefix ==
    <<"Quick", "sync", "to", "deploy", "image", "%s",
      "and", "configure", "all", "traffic", "to", "it">>
ForcedSummary(version) ==
    Sprintf(SummaryPrefix \o <<"(", "forced", "via", "web", ")">>, version)
FirstDeploymentSummary(version) ==
    Sprintf(SummaryPrefix
            \o <<"(", "it", "seems", "this", "is", "the", "first", "deployment", ")">>,
            version)
NoPipelineSummary(version) ==
    Sprintf(SummaryPrefix \o <<"(", "pipeline", "was", "not", "configured", ")">>, version)
FallbackSummary(version) ==
    Sprintf(SummaryPrefix, version)

\* The configuration Plan works on once it is known to be present.
Cfg == Deref(ds.ECSDeploymentSpec)

\* Mutant: the auto-rollback flag of the configuration is not passed on.
AutoRollbackArg_dropped(cfg) == FALSE

\* The first argument of every buildQuickSyncPipeline call.
AutoRollbackArg(cfg) == cfg.Input.AutoRollback

\* Mutant: the switch matches another strategy.
IsQuickSync_wrongCase(i) == i.SyncStrategy = "PIPELINE"

\* case model.SyncStrategy_QUICK_SYNC
IsQuickSync(i) == i.SyncStrategy = "QUICK_SYNC"

\* Mutant: the test is inverted.
IsFirstDeployment_inverted(i) == i.MostRecentSuccessfulCommitHash # ""

\* in.MostRecentSuccessfulCommitHash == ""
IsFirstDeployment(i) == i.MostRecentSuccessfulCommitHash = ""

\* Mutant: only a nil pipeline counts, an empty one does not.
NoPipelineConfigured_nilOnly(cfg) == cfg.Pipeline = Nil

\* cfg.Pipeline == nil || len(cfg.Pipeline.Stages) == 0
NoPipelineConfigured(cfg) ==
    cfg.Pipeline = Nil \/ Len(Deref(cfg.Pipeline).Stages) = 0

\* Mutant: the pipeline test comes before the first-deployment test.
SelectBranch_reordered(i, cfg) ==
    IF IsQuickSync(i) THEN "forced"
    ELSE IF NoPipelineConfigured(cfg) THEN "nopipeline"
    ELSE IF IsFirstDeployment(i) THEN "first"
    ELSE "fallback"

\* The branch of Plan that returns: the switch, then the two ifs, then the end.
SelectBranch(i, cfg) ==
    IF IsQuickSync(i) THEN "forced"
    ELSE IF IsFirstDeployment(i) THEN "first"
    ELSE IF NoPipelineConfigured(cfg) THEN "nopipeline"
    ELSE "fallback"

\* Mutant: the last branch builds no stages.
FallbackStages_none(cfg, now) == <<>>

\* out.Stages of the last branch.
FallbackStages(cfg, now) == buildQuickSyncPipeline(AutoRollbackArg(cfg), now)

\* A caller invokes Plan with an input and a live context.
Call ==
    /\ pc \in {"idle", "returned"}
    /\ \E i \in Inputs : in' = i
    /\ pc' = "get"
    /\ ctx' = FALSE
    /\ ds' = NoDeploySource
    /\ got' = NilErr
    /\ out' = EmptyOutput
    /\ err' = NilErr
    /\ trace' = <<>>
    /\ UNCHANGED regVars

\* The caller cancels the context of the running call.
Cancel ==
    /\ pc \in {"get", "cfg", "version", "strategy"}
    /\ ~ctx
    /\ ctx' = TRUE
    /\ UNCHANGED <<pc, in, ds, got, out, err, trace, regVars>>

\* Mutant: the provider's error is assigned to a shadowing variable, so the
\* named result stays nil.
PlanGetFailed_shadowed ==
    /\ pc = "get"
    /\ \E r \in Get(ctx) :
         /\ r.err # NilErr
         /\ got' = r.err
         /\ ds' = r.ds
    /\ err' = NilErr
    /\ trace' = Append(trace, "Get")
    /\ pc' = "returned"
    /\ UNCHANGED <<in, ctx, out, regVars>>

\* Get failed: the error is wrapped and Plan returns.
PlanGetFailed ==
    /\ pc = "get"
    /\ \E r \in Get(ctx) :
         /\ r.err # NilErr
         /\ got' = r.err
         /\ err' = Errorf(PrepareErrorFormat, r.err)
         /\ ds' = r.ds
    /\ trace' = Append(trace, "Get")
    /\ pc' = "returned"
    /\ UNCHANGED <<in, ctx, out, regVars>>

\* Get succeeded.
PlanGetOk ==
    /\ pc = "get"
    /\ \E r \in Get(ctx) :
         /\ r.err = NilErr
         /\ got' = r.err
         /\ err' = r.err
         /\ ds' = r.ds
    /\ trace' = Append(trace, "Get")
    /\ pc' = "cfg"
    /\ UNCHANGED <<in, ctx, out, regVars>>

\* cfg == nil
PlanMissingSpec ==
    /\ pc = "cfg"
    /\ ds.ECSDeploymentSpec = Nil
    /\ err' = MissingSpecError
    /\ pc' = "returned"
    /\ UNCHANGED <<in, ctx, ds, got, out, trace, regVars>>

PlanSpecPresent ==
    /\ pc = "cfg"
    /\ ds.ECSDeploymentSpec # Nil
    /\ pc' = "version"
    /\ UNCHANGED <<in, ctx, ds, got, out, err, trace, regVars>>

\* determineVersion returned a version.
PlanVersionResolved ==
    /\ pc = "version"
    /\ LET r == determineVersion(ds.AppDir, Cfg.Input.TaskDefinitionFile)
       IN /\ r.err = NilErr
          /\ out' = [out EXCEPT !.Version = r.val]
    /\ trace' = Append(trace, "determineVersion")
    /\ pc' = "strategy"
    /\ UNCHANGED <<in, ctx, ds, got, err, regVars>>

\* Mutant: a failure of determineVersion is returned as the error of Plan.
PlanVersionUnknown_fatal ==
    /\ pc = "version"
    /\ LET r == determineVersion(ds.AppDir, Cfg.Input.TaskDefinitionFile)
       IN /\ r.err # NilErr
          /\ err' = r.err
    /\ trace' = Append(trace, "determineVersion")
    /\ pc' = "returned"
    /\ UNCHANGED <<in, ctx, ds, got, out, regVars>>

\* determineVersion failed: the version is "unknown" and a warning is logged.
PlanVersionUnknown ==
    /\ pc = "version"
    /\ LET r == determineVersion(ds.AppDir, Cfg.Input.TaskDefinitionFile)
       IN /\ r.err # NilErr
          /\ out' = [out EXCEPT !.Version = "unknown"]
    /\ trace' = trace \o <<"determineVersion", "Warn">>
    /\ pc' = "strategy"
    /\ UNCHANGED <<in, ctx, ds, got, err, regVars>>

\* The body shared by the branches: build the stages at time.Now(), set the
\* summary, return.
Return(stages, summary) ==
    /\ out' = [out EXCEPT !.Stages = stages, !.Summary = summary]
    /\ trace' = trace \o <<"time.Now", "buildQuickSyncPipeline">>
    /\ pc' = "returned"
    /\ UNCHANGED <<in, ctx, ds, got, err, regVars>>

PlanForced ==
    /\ pc = "strategy"
    /\ SelectBranch(in, Cfg) = "forced"
    /\ \E now \in Times :
         Return(buildQuickSyncPipeline(AutoRollbackArg(Cfg), now),
                ForcedSummary(out.Version))

PlanFirstDeployment ==
    /\ pc = "strategy"
    /\ SelectBranch(in, Cfg) = "first"
    /\ \E now \in Times :
         Return(buildQuickSyncPipeline(AutoRollbackArg(Cfg), now),
                FirstDeploymentSummary(out.Version))

PlanNoPipeline ==
    /\ pc = "strategy"
    /\ SelectBranch(in, Cfg) = "nopipeline"
    /\ \E now \in Times :
         Return(buildQuickSyncPipeline(AutoRollbackArg(Cfg), now),
                NoPipelineSummary(out.Version))

PlanFallback ==
    /\ pc = "strategy"
    /\ SelectBranch(in, Cfg) = "fallback"
    /\ \E now \in Times :
         Return(FallbackStages(Cfg, now), FallbackSummary(out.Version))

\* --------------------------------------------------------------- Register

\* What Register hands back to its caller of the error r.Register returned:
\* Register has no result and drops it.
RegisterResult(e) == NilErr

Register ==
    /\ LET r == RegistryRegister(registry, ApplicationKind_ECS)
       IN /\ registry' = r.planners
          /\ regErr' = r.err
          /\ regSeen' = RegisterResult(r.err)
    /\ UNCHANGED planVars

\* ------------------------------------------------------------------- Spec

Init ==
    /\ pc = "idle"
    /\ in = NoInput
    /\ ctx = FALSE
    /\ ds = NoDeploySource
    /\ got = NilErr
    /\ out = EmptyOutput
    /\ err = NilErr
    /\ trace = <<>>
    /\ registry = {}
    /\ regErr = NilErr
    /\ regSeen = NilErr

Next ==
    \/ Call
    \/ Cancel
    \/ PlanGetFailed
    \/ PlanGetOk
    \/ PlanMissingSpec
    \/ PlanSpecPresent
    \/ PlanVersionResolved
    \/ PlanVersionUnknown
    \/ PlanForced
    \/ PlanFirstDeployment
    \/ PlanNoPipeline
    \/ PlanFallback
    \/ Register

Spec == Init /\ [][Next]_vars

\* ------------------------------------------------------------- properties

Returned == pc = "returned"
Succeeded == Returned /\ err = NilErr
GetSucceeded == got = NilErr
SpecPresent == ds.ECSDeploymentSpec # Nil

\* errors.Is(e, sentinel), as a caller of Plan would test the error.
ErrorsIs(e, sentinel) == sentinel \in e.chain

\* strings.Contains on token sequences.
Contains(s, sub) ==
    \E i \in 1..(Len(s) - Len(sub) + 1) : SubSeq(s, i, i + Len(sub) - 1) = sub

Count(seq, x) == Cardinality({i \in DOMAIN seq : seq[i] = x})
StageNames(stages) == [i \in DOMAIN stages |-> stages[i].Name]

\* The quick-sync stage list for a value of the auto-rollback flag.
IsQuickSyncStages(stages, autoRollback) ==
    StageNames(stages) = IF autoRollback THEN <<"ECS_SYNC", "ROLLBACK">> ELSE <<"ECS_SYNC">>

\* The file the task definition is read from.
TaskDefinitionContent == ds.AppDir[Cfg.Input.TaskDefinitionFile]
\* The task definition can be loaded and its image has a tag.
VersionResolvable ==
    TaskDefinitionContent.Kind = "taskdef" /\ TaskDefinitionContent.Tag # Nil

\* The summary sentence with a version label and a reason in parentheses.
Sentence(version, reason) ==
    <<"Quick", "sync", "to", "deploy", "image", version,
      "and", "configure", "all", "traffic", "to", "it">> \o reason
ForcedReason == <<"(", "forced", "via", "web", ")">>
FirstReason == <<"(", "it", "seems", "this", "is", "the", "first", "deployment", ")">>
NoPipelineReason == <<"(", "pipeline", "was", "not", "configured", ")">>

\* C1: when Get succeeds, the ECS configuration is present and the trigger's
\* sync strategy is QUICK_SYNC, Plan returns no error, the quick-sync stage
\* list and a summary containing "forced via web", whatever the commit hash,
\* the pipeline section and the outcome of version resolution are.
C1_ForcedQuickSync ==
    (Returned /\ GetSucceeded /\ SpecPresent /\ in.SyncStrategy = "QUICK_SYNC")
        => /\ err = NilErr
           /\ IsQuickSyncStages(out.Stages, Cfg.Input.AutoRollback)
           /\ Contains(out.Summary, <<"forced", "via", "web">>)

\* A forced sync of an application never deployed before, with a pipeline
\* configured and no resolvable version.
C1_Witness ==
    /\ Succeeded
    /\ in.SyncStrategy = "QUICK_SYNC"
    /\ in.MostRecentSuccessfulCommitHash = ""
    /\ Cfg.Pipeline # Nil
    /\ Len(Deref(Cfg.Pipeline).Stages) > 0
    /\ ~VersionResolvable
    /\ Contains(out.Summary, <<"forced", "via", "web">>)

\* C2 as stated: with an empty commit hash a successful Plan returns the
\* quick-sync stage list and a summary mentioning "first deployment", for
\* every sync strategy and pipeline section.
C2_FirstDeploymentAlways ==
    (Succeeded /\ in.MostRecentSuccessfulCommitHash = "")
        => /\ IsQuickSyncStages(out.Stages, Cfg.Input.AutoRollback)
           /\ Contains(out.Summary, <<"first", "deployment">>)

\* C2 amended: with an empty commit hash and a sync strategy other than
\* QUICK_SYNC a successful Plan returns the quick-sync stage list and a
\* summary mentioning "first deployment", for every pipeline section.
C2_FirstDeploymentUnlessForced ==
    (Succeeded /\ in.MostRecentSuccessfulCommitHash = ""
               /\ in.SyncStrategy # "QUICK_SYNC")
        => /\ IsQuickSyncStages(out.Stages, Cfg.Input.AutoRollback)
           /\ Contains(out.Summary, <<"first", "deployment">>)

\* A first deployment that was not forced, with a pipeline configured.
C2_Witness ==
    /\ Succeeded
    /\ in.MostRecentSuccessfulCommitHash = ""
    /\ in.SyncStrategy = "PIPELINE"
    /\ Cfg.Pipeline # Nil
    /\ Len(Deref(Cfg.Pipeline).Stages) > 0
    /\ Contains(out.Summary, <<"first", "deployment">>)

\* C3 as stated: with the pipeline section nil or empty a successful Plan
\* returns the quick-sync stage list and a summary mentioning that the
\* pipeline was not configured, for every sync strategy and commit hash.
C3_NoPipelineAlways ==
    (Succeeded /\ (Cfg.Pipeline = Nil \/ Deref(Cfg.Pipeline).Stages = <<>>))
        => /\ IsQuickSyncStages(out.Stages, Cfg.Input.AutoRollback)
           /\ Contains(out.Summary, <<"pipeline", "was", "not", "configured">>)

\* C3 amended: with the pipeline section nil or empty, a sync strategy other
\* than QUICK_SYNC and a non-empty commit hash, a successful Plan returns the
\* quick-sync stage list and a summary mentioning that the pipeline was not
\* configured.
C3_NoPipelineUnlessEarlierRule ==
    (Succeeded /\ (Cfg.Pipeline = Nil \/ Deref(Cfg.Pipeline).Stages = <<>>)
               /\ in.SyncStrategy # "QUICK_SYNC"
               /\ in.MostRecentSuccessfulCommitHash # "")
        => /\ IsQuickSyncStages(out.Stages, Cfg.Input.AutoRollback)
           /\ Contains(out.Summary, <<"pipeline", "was", "not", "configured">>)

\* A later deployment, not forced, whose pipeline section is present but empty.
C3_Witness ==
    /\ Succeeded
    /\ in.SyncStrategy # "QUICK_SYNC"
    /\ in.MostRecentSuccessfulCommitHash # ""
    /\ Cfg.Pipeline # Nil
    /\ Deref(Cfg.Pipeline).Stages = <<>>
    /\ Contains(out.Summary, <<"pipeline", "was", "not", "configured">>)

\* C4: once the deploy source and the configuration are there, a failing
\* version resolution never aborts planning: Plan returns no error, the
\* version is "unknown", one warning is logged and stages and summary are
\* produced; a successful resolution gives the resolved tag and no warning.
C4_VersionNeverFatal ==
    (Returned /\ GetSucceeded /\ SpecPresent)
        => /\ err = NilErr
           /\ out.Stages # <<>>
           /\ out.Summary # <<>>
           /\ Count(trace, "determineVersion") = 1
           /\ IF VersionResolvable
              THEN /\ out.Version = Deref(TaskDefinitionContent.Tag)
                   /\ Count(trace, "Warn") = 0
              ELSE /\ out.Version = "unknown"
                   /\ Count(trace, "Warn") = 1

\* The task definition file is missing and Plan has returned.
C4_Witness ==
    /\ Succeeded
    /\ TaskDefinitionContent.Kind = "missing"
    /\ out.Version = "unknown"
    /\ Count(trace, "Warn") = 1
    /\ out.Stages # <<>>

\* C5: Plan returns an error exactly when Get fails or the ECS configuration
\* is absent, and then the output is empty, version resolution was not
\* invoked, nothing was logged and no stages were built.
C5_FatalErrors ==
    Returned
        => /\ (err # NilErr) <=> (~GetSucceeded \/ ~SpecPresent)
           /\ (err # NilErr)
                => /\ out = EmptyOutput
                   /\ Count(trace, "determineVersion") = 0
                   /\ Count(trace, "Warn") = 0
                   /\ Count(trace, "buildQuickSyncPipeline") = 0

\* Get failed for a reason other than cancellation and Plan returned its error.
C5_Witness ==
    /\ Returned
    /\ got = GetFailure
    /\ err # NilErr
    /\ out = EmptyOutput

\* C6: in every branch of a successful Plan the first stage is the sync
\* stage; with auto-rollback set the last stage is a rollback stage and the
\* only one; with auto-rollback unset there is no rollback stage.
C6_RollbackLast ==
    Succeeded
        => /\ out.Stages # <<>>
           /\ out.Stages[1].Name = "ECS_SYNC"
           /\ IF Cfg.Input.AutoRollback
              THEN /\ out.Stages[Len(out.Stages)].Name = "ROLLBACK"
                   /\ Count(StageNames(out.Stages), "ROLLBACK") = 1
              ELSE Count(StageNames(out.Stages), "ROLLBACK") = 0

\* A forced sync with auto-rollback set has returned its two stages.
C6_Witness ==
    /\ Succeeded
    /\ Cfg.Input.AutoRollback
    /\ SelectBranch(in, Cfg) = "forced"
    /\ Len(out.Stages) = 2
    /\ out.Stages[2].Name = "ROLLBACK"

\* C7: in every branch of a successful Plan the stage list is non-empty and
\* the indices are 0, 1, ... in order.
C7_IndicesContiguous ==
    Succeeded
        => /\ out.Stages # <<>>
           /\ \A i \in DOMAIN out.Stages : out.Stages[i].Index = i - 1

\* The last branch with auto-rollback set has returned stages 0 and 1.
C7_Witness ==
    /\ Succeeded
    /\ SelectBranch(in, Cfg) = "fallback"
    /\ Len(out.Stages) = 2
    /\ out.Stages[1].Index = 0
    /\ out.Stages[2].Index = 1

\* C8 as stated: when the registry reports a duplicate registration, the
\* caller of Register observes the failure.
C8_DuplicateSurfaced ==
    regErr # NilErr => regSeen # NilErr

\* C9 as stated: when Get returns because the context was cancelled, Plan
\* returns without going further, with no output and with an error that
\* is still recognisable as the cancellation.
C9_CancellationPreserved ==
    (Returned /\ ErrorsIs(got, "context.Canceled"))
        => /\ err # NilErr
           /\ out = EmptyOutput
           /\ trace = <<"Get">>
           /\ ErrorsIs(err, "context.Canceled")

\* The version label a successful Plan reports.
ExpectedVersion ==
    IF VersionResolvable THEN Deref(TaskDefinitionContent.Tag) ELSE "unknown"

\* The reason of the first rule that applies, in the order forced, first
\* deployment, no pipeline, none.
ExpectedReason ==
    IF in.SyncStrategy = "QUICK_SYNC" THEN ForcedReason
    ELSE IF in.MostRecentSuccessfulCommitHash = "" THEN FirstReason
    ELSE IF Cfg.Pipeline = Nil \/ Deref(Cfg.Pipeline).Stages = <<>> THEN NoPipelineReason
    ELSE <<>>

\* C10: a successful Plan returns the summary sentence of the first rule that
\* applies, in the order forced / first deployment / no pipeline / fallback,
\* with the resolved version label in it, and a stage list that depends on
\* the auto-rollback flag alone.
C10_FirstMatchWins ==
    Succeeded
        => /\ out.Summary = Sentence(ExpectedVersion, ExpectedReason)
           /\ Contains(out.Summary, <<out.Version>>)
           /\ Cardinality({r \in {ForcedReason, FirstReason, NoPipelineReason} :
                              Contains(out.Summary, r)})
                = (IF ExpectedReason = <<>> THEN 0 ELSE 1)
           /\ IsQuickSyncStages(out.Stages, Cfg.Input.AutoRollback)

\* A first deployment without a pipeline: rules (b) and (c) both apply and
\* the summary is that of (b).
C10_Witness ==
    /\ Succeeded
    /\ in.SyncStrategy # "QUICK_SYNC"
    /\ in.MostRecentSuccessfulCommitHash = ""
    /\ Cfg.Pipeline = Nil
    /\ out.Summary = Sentence(out.Version, FirstReason)

====
